---- MODULE Spec2Model ----
(***************************************************************************)
(* A model of the pairs-trading pipeline of this repository:               *)
(*   src/ingest.py  two feed connectors (one asyncio task per symbol)      *)
(*                  appending normalized ticks to one SQLite table over    *)
(*                  one shared connection;                                 *)
(*   src/app.py     the dashboard script: load_data, get_pair_data,        *)
(*                  resample, calculate_analytics and the z-score alert,   *)
(*                  with Streamlit's caches.                               *)
(* Reals are held exactly: a price of a series is an integer multiple of   *)
(* 1/Scale, a hedge ratio or a statistic is a pair of integers.            *)
(***************************************************************************)
EXTENDS Integers, Sequences, FiniteSets, TLC

VARIABLES
    db,         \* the file trades.db: "nofile", "notable" or "ready"
    ticks,      \* committed rows of table ticks, in rowid order
    pending,    \* rows inserted on the shared connection, not yet committed
    pc,         \* pc[s]: where connector s is in subscribe_to_trades
    closures,   \* closures[s]: ConnectionClosed events connector s has seen
    delivered,  \* delivered[s]: ticks connector s has handed to the database
    last,       \* the most recent connector event: [sym, ev]
    loadCache,  \* st.cache_data of load_data: <<>> or <<the cached frame>>
    analyticsCache, \* st.cache_resource of calculate_analytics: its entries
    view        \* what the last run of the dashboard script computed

ingest == <<db, ticks, pending, pc, closures, delivered, last>>
reader == <<loadCache, analyticsCache, view>>
vars == <<db, ticks, pending, pc, closures, delivered, last, loadCache,
          analyticsCache, view>>

(***************************************************************************)
(* Bounds of the model.                                                    *)
(***************************************************************************)
MaxTicks == 3       \* rows the connectors may insert
MaxClosures == 2    \* ConnectionClosed events per connector
MaxRows == 3        \* rows of a snapshot handed to the aligner
MinWindow == 2      \* the rolling-window slider (10..200 in app.py),
MaxWindow == 3      \*   scaled down to the series the model can hold
MaxFeed == 4        \* ticks the two scripted feeds deliver together
MaxZTenths == 30    \* |current_z| of the alert evaluations, in tenths
MaxSeries == 4      \* rows of a resampled series handed to the analytics

\* symbols_to_track of main(); the feed symbol is also the stored symbol
Symbols == {"btcusdt", "ethusdt"}

(***************************************************************************)
(* Inbound messages.  A message is either not JSON at all ("garbage") or   *)
(* an object with an event tag e and the fields T, p, q; a field is a      *)
(* number, is missing, or is present and unparsable.                       *)
(***************************************************************************)
Num(v) == [tag |-> "num", v |-> v]
Missing == [tag |-> "missing", v |-> 0]
Bad == [tag |-> "bad", v |-> 0]

\* the same for the field T, whose numbers are pairs (see Ms)
MissingT == [tag |-> "missing", v |-> [sec |-> 0, ms |-> 0]]
BadT == [tag |-> "bad", v |-> [sec |-> 0, ms |-> 0]]

Msg(e, T, p, q) == [e |-> e, T |-> T, p |-> p, q |-> q]

\* A trade time T is epoch milliseconds, held as whole seconds and the
\* milliseconds left over (an epoch-millisecond count of a later month does
\* not fit the checker's integers).
Ms(sec, ms) == [sec |-> sec, ms |-> ms]

\* trade times, prices and quantities the feed sends to the connectors
IngestTimes == {Ms(1, 0)}
IngestPrices == {1}
IngestSizes == {0}

TradeMsgs(Ts, Ps, Qs) ==
    {Msg("trade", Num(T), Num(p), Num(q)) : T \in Ts, p \in Ps, q \in Qs}

\* messages that must not produce a tick
BadMsgs ==
    { Msg("garbage", MissingT, Missing, Missing),
      Msg("other", Num(Ms(1, 0)), Num(1), Num(0)),
      Msg("none", Num(Ms(1, 0)), Num(1), Num(0)),
      Msg("trade", MissingT, Num(1), Num(0)),
      Msg("trade", BadT, Num(1), Num(0)),
      Msg("trade", Num(Ms(1, 0)), Missing, Num(0)),
      Msg("trade", Num(Ms(1, 0)), Bad, Num(0)),
      Msg("trade", Num(Ms(1, 0)), Num(1), Missing),
      Msg("trade", Num(Ms(1, 0)), Num(1), Bad) }

IngestMsgs == TradeMsgs(IngestTimes, IngestPrices, IngestSizes) \cup BadMsgs

\* outcomes of the two database calls of one append
DbOutcomes == {"ok", "insert_fails", "commit_fails"}

(***************************************************************************)
(* normalize_trade_data.  datetime.fromtimestamp(T / 1000).isoformat() is  *)
(* held as seconds and microseconds; None is NoTick.                       *)
(***************************************************************************)
NoTick == [none |-> TRUE]

IsoFormat(T) == [sec |-> T.sec, us |-> T.ms * 1000]

NormalizeTradeDataDefaults(symbol, data) ==
    [ts |-> IsoFormat(IF data.T.tag = "num" THEN data.T.v ELSE Ms(0, 0)),
     symbol |-> symbol,
     price |-> IF data.p.tag = "num" THEN data.p.v ELSE 0,
     size |-> IF data.q.tag = "num" THEN data.q.v ELSE 0]

normalize_trade_data(symbol, data) ==
    IF data.T.tag = "num" /\ data.p.tag = "num" /\ data.q.tag = "num"
    THEN [ts |-> IsoFormat(data.T.v), symbol |-> symbol,
          price |-> data.p.v, size |-> data.q.v]
    ELSE NoTick

\* json.loads raises on a message that is not JSON
JsonLoads(message) == message.e # "garbage"

\* data.get('e') == 'trade'
IsTradeEvent(data) == data.e = "trade"

\* the database is reached only by a trade event that normalizes
ReachesDb(s, m) ==
    JsonLoads(m) /\ IsTradeEvent(m) /\ normalize_trade_data(s, m) # NoTick

OutcomesFor(s, m) == IF ReachesDb(s, m) THEN DbOutcomes ELSE {"ok"}

\* the model's bound on the rows: a message that would insert one more is
\* not delivered
Room(s, m, max) ==
    ReachesDb(s, m) => delivered["btcusdt"] + delivered["ethusdt"] < max

(***************************************************************************)
(* create_database_table: sqlite3.connect creates the file, the CREATE     *)
(* TABLE IF NOT EXISTS and its commit create the table.                    *)
(***************************************************************************)
DbConnect ==
    /\ db = "nofile"
    /\ db' = "notable"
    /\ UNCHANGED <<ticks, pending, pc, closures, delivered, last, reader>>

DbCreateTable ==
    /\ db = "notable"
    /\ db' = "ready"
    /\ UNCHANGED <<ticks, pending, pc, closures, delivered, last, reader>>

(***************************************************************************)
(* subscribe_to_trades.  pc[s] is                                          *)
(*   "connect"    in websockets.connect(url)                               *)
(*   "recv"       connected, awaiting ws.recv()                            *)
(*   "sleep"      in asyncio.sleep(5) of the outer handler                 *)
(*   "cancelled"  the task has ended with CancelledError                   *)
(***************************************************************************)
Event(s, ev) == [sym |-> s, ev |-> ev]

AfterConnectErrorNoDelay == "connect"

\* where the connector goes when websockets.connect raises
AfterConnectError == "sleep"

\* where the connector goes when ws.recv() raises ConnectionClosed: the
\* break leaves the inner loop and the async with, which closes the
\* connection, and the outer loop calls websockets.connect again
AfterConnectionClosedReturns == "cancelled"

AfterConnectionClosed == "connect"

\* where the connector goes when handling a message raises any other
\* Exception (json.loads, data.get, execute, commit)
AfterProcessingError == "recv"

ConnectOk(s) ==
    /\ db = "ready"
    /\ pc[s] = "connect"
    /\ pc' = [pc EXCEPT ![s] = "recv"]
    /\ last' = Event(s, "connected")
    /\ UNCHANGED <<db, ticks, pending, closures, delivered, reader>>

ConnectFails(s) ==
    /\ db = "ready"
    /\ pc[s] = "connect"
    /\ pc' = [pc EXCEPT ![s] = AfterConnectError]
    /\ last' = Event(s, "connect_error")
    /\ UNCHANGED <<db, ticks, pending, closures, delivered, reader>>

SleepDone(s) ==
    /\ pc[s] = "sleep"
    /\ pc' = [pc EXCEPT ![s] = "connect"]
    /\ last' = Event(s, "slept")
    /\ UNCHANGED <<db, ticks, pending, closures, delivered, reader>>

RecvClosed(s) ==
    /\ pc[s] = "recv"
    /\ closures[s] < MaxClosures
    /\ closures' = [closures EXCEPT ![s] = @ + 1]
    /\ pc' = [pc EXCEPT ![s] = AfterConnectionClosed]
    /\ last' = Event(s, "closed")
    /\ UNCHANGED <<db, ticks, pending, delivered, reader>>

InsertRowPartial(rows, tick) == Append(rows, [tick EXCEPT !.price = 0])

\* INSERT INTO ticks: the new row gets the next rowid of the transaction
InsertRow(rows, tick) == Append(rows, tick)

\* one message taken from ws.recv() and handled; out is the outcome of the
\* database calls should the message reach them
RecvMsg(s, message, out) ==
    /\ pc[s] = "recv"
    /\ IF ~JsonLoads(message)
       THEN /\ pc' = [pc EXCEPT ![s] = AfterProcessingError]
            /\ last' = Event(s, "error")
            /\ UNCHANGED <<ticks, pending, delivered>>
       ELSE IF ~IsTradeEvent(message)
       THEN /\ last' = Event(s, "ignored")
            /\ UNCHANGED <<ticks, pending, pc, delivered>>
       ELSE LET normalized_tick == normalize_trade_data(s, message) IN
            IF normalized_tick = NoTick
            THEN /\ last' = Event(s, "dropped")
                 /\ UNCHANGED <<ticks, pending, pc, delivered>>
            ELSE /\ delivered' = [delivered EXCEPT ![s] = @ + 1]
                 /\ CASE out = "insert_fails" ->
                           /\ pc' = [pc EXCEPT ![s] = AfterProcessingError]
                           /\ last' = Event(s, "db_error")
                           /\ UNCHANGED <<ticks, pending>>
                      [] out = "commit_fails" ->
                           /\ pending' = InsertRow(pending, normalized_tick)
                           /\ pc' = [pc EXCEPT ![s] = AfterProcessingError]
                           /\ last' = Event(s, "db_error")
                           /\ UNCHANGED ticks
                      [] OTHER ->
                           /\ ticks' = ticks \o InsertRow(pending, normalized_tick)
                           /\ pending' = <<>>
                           /\ last' = Event(s, "appended")
                           /\ UNCHANGED pc
    /\ UNCHANGED <<db, closures, reader>>

AfterCancelledErrorCaught == "recv"

\* where a connector goes when its task is cancelled: CancelledError is not
\* an Exception, so neither handler of subscribe_to_trades catches it
AfterCancelledError == "cancelled"

\* the interrupt arrives while a connector is between c.execute and
\* db_conn.commit() of the row of message m: the row is inserted and is
\* never committed
InterruptedAppend(s, m) ==
    /\ pc[s] = "recv"
    /\ ReachesDb(s, m)
    /\ Room(s, m, MaxTicks)
    /\ delivered' = [delivered EXCEPT ![s] = @ + 1]
    /\ pending' = InsertRow(pending, normalize_trade_data(s, m))
    /\ last' = Event(s, "cancel_in_append")

\* KeyboardInterrupt: asyncio.run cancels every task, whatever it awaits.
\* Where the interpreter raises the interrupt in the running code instead
\* of cancelling at the next await, an append may be cut short.
Cancel ==
    /\ \E s \in Symbols : pc[s] # "cancelled"
    /\ pc' = [s \in Symbols |-> AfterCancelledError]
    /\ \/ /\ last' = Event("btcusdt", "cancel")
          /\ UNCHANGED <<pending, delivered>>
       \/ \E s \in Symbols, m \in IngestMsgs : InterruptedAppend(s, m)
    /\ UNCHANGED <<db, ticks, closures, reader>>

(***************************************************************************)
(* Exact arithmetic.                                                       *)
(***************************************************************************)
Abs(n) == IF n < 0 THEN -n ELSE n

Sign(n) == IF n < 0 THEN -1 ELSE IF n = 0 THEN 0 ELSE 1

MaxOf(S) == CHOOSE n \in S : \A m \in S : m <= n

RECURSIVE GcdNat(_, _)
GcdNat(a, b) == IF b = 0 THEN a ELSE GcdNat(b, a % b)

Gcd(a, b) == GcdNat(Abs(a), Abs(b))

RECURSIVE GcdAll(_)
GcdAll(S) ==
    IF S = {} THEN 0
    ELSE LET n == CHOOSE m \in S : TRUE IN Gcd(n, GcdAll(S \ {n}))

RECURSIVE LcmUpTo(_)
LcmUpTo(n) ==
    IF n <= 1 THEN 1
    ELSE LET l == LcmUpTo(n - 1) IN (l \div Gcd(l, n)) * n

RECURSIVE SumOver(_, _)
SumOver(f, I) ==
    IF I = {} THEN 0
    ELSE LET i == CHOOSE j \in I : TRUE IN f[i] + SumOver(f, I \ {i})

\* the sequence f with its elements evaluated once
AsSeq(f) == <<>> \o f

\* the fraction n/d in lowest terms with a positive denominator
Frac(n, d) ==
    LET g == Gcd(n, d) IN
    IF d = 0 THEN [num |-> Sign(n), den |-> 0]
    ELSE [num |-> Sign(d) * (n \div g), den |-> Abs(d) \div g]

(***************************************************************************)
(* load_data: SELECT ts, symbol, price FROM ticks, then pd.to_datetime.    *)
(* A data frame is the sequence of its rows; a Timestamp is whole seconds  *)
(* and nanoseconds.  The empty frame is <<>>.                              *)
(***************************************************************************)
to_datetime(iso) == [sec |-> iso.sec, ns |-> iso.us * 1000]

TsLess(a, b) == a.sec < b.sec \/ (a.sec = b.sec /\ a.ns < b.ns)

ReadSqlQueryNewestFirst(rows) ==
    AsSeq([i \in 1..Len(rows) |->
        [ts |-> to_datetime(rows[Len(rows) + 1 - i].ts),
         symbol |-> rows[Len(rows) + 1 - i].symbol,
         price |-> rows[Len(rows) + 1 - i].price]])

\* SELECT ts, symbol, price FROM ticks: the rows in rowid order, ts parsed
ReadSqlQuery(rows) ==
    AsSeq([i \in 1..Len(rows) |->
        [ts |-> to_datetime(rows[i].ts), symbol |-> rows[i].symbol,
         price |-> rows[i].price]])

\* pd.read_sql_query raises DatabaseError (no such table: ticks)
QueryRaises(dbState) == dbState = "notable"

\* what a call returns, or that it raised
Returns(df) == [raised |-> FALSE, df |-> df]
Raises == [raised |-> TRUE, df |-> <<>>]

LoadDataBodyUncaught(dbState, rows) ==
    IF dbState = "nofile" \/ QueryRaises(dbState) THEN Raises
    ELSE Returns(ReadSqlQuery(rows))

\* the body of load_data, run on a cache miss: the file may not exist, the
\* table may not exist (the DatabaseError is caught), the table may be empty
LoadDataBody(dbState, rows) ==
    IF dbState = "nofile" THEN Returns(<<>>)
    ELSE IF QueryRaises(dbState) THEN Returns(<<>>)
    ELSE Returns(ReadSqlQuery(rows))

(***************************************************************************)
(* get_pair_data.  Prices of a series are held multiplied by Scale, the    *)
(* least common multiple of the possible group sizes, so that a mean of    *)
(* duplicates is an integer.                                               *)
(***************************************************************************)
Scale == LcmUpTo(MaxOf({MaxTicks, MaxRows, MaxFeed}))

NaN == [def |-> FALSE, v |-> 0]
Val(v) == [def |-> TRUE, v |-> v]

\* df[df['symbol'] == sym].set_index('ts')['price']
SymbolSeries(df, sym) ==
    LET Sel(r) == r.symbol = sym
        rows == SelectSeq(df, Sel)
    IN AsSeq([i \in 1..Len(rows) |-> [ts |-> rows[i].ts, price |-> Scale * rows[i].price]])

TsSet(series) == {series[i].ts : i \in 1..Len(series)}

IndexOf(series) == AsSeq([i \in 1..Len(series) |-> series[i].ts])

\* index.is_unique
IsUnique(series) ==
    \A i, j \in 1..Len(series) : i # j => series[i].ts # series[j].ts

MinTs(S) == CHOOSE t \in S : \A u \in S : ~TsLess(u, t)

RECURSIVE SortTs(_)
SortTs(S) == IF S = {} THEN <<>> ELSE <<MinTs(S)>> \o SortTs(S \ {MinTs(S)})

\* the mean of the prices the series holds at timestamp t
MeanAt(series, t) ==
    LET I == {i \in 1..Len(series) : series[i].ts = t}
        p == [i \in 1..Len(series) |-> series[i].price]
    IN SumOver(p, I) \div Cardinality(I)

GroupByLast(series) ==
    LET idx == SortTs(TsSet(series))
        LastAt(t) == series[MaxOf({i \in 1..Len(series) : series[i].ts = t})].price
    IN AsSeq([i \in 1..Len(idx) |-> [ts |-> idx[i], price |-> LastAt(idx[i])]])

\* series.groupby(series.index).mean(): one row per timestamp, sorted
GroupByMean(series) ==
    LET idx == SortTs(TsSet(series))
    IN AsSeq([i \in 1..Len(idx) |-> [ts |-> idx[i], price |-> MeanAt(series, idx[i])]])

\* lines 51-59: duplicates are averaged only when the index has some
Dedup(series) == IF ~IsUnique(series) THEN GroupByMean(series) ELSE series

\* the row index of pd.concat(axis=1) of two series with unique
\* DatetimeIndexes: equal indexes are kept as they are, unequal ones are
\* united and sorted
UnionIndex(a, b) ==
    IF IndexOf(a) = IndexOf(b) THEN IndexOf(a)
    ELSE SortTs(TsSet(a) \cup TsSet(b))

CellAt(series, t) ==
    IF t \in TsSet(series)
    THEN Val(series[CHOOSE i \in 1..Len(series) : series[i].ts = t].price)
    ELSE NaN

Concat(btc, eth) ==
    LET idx == UnionIndex(btc, eth)
    IN AsSeq([i \in 1..Len(idx) |->
          [ts |-> idx[i], btc_price |-> CellAt(btc, idx[i]),
           eth_price |-> CellAt(eth, idx[i])]])

\* DataFrame.ffill on one column: a NaN cell takes the value of the nearest
\* row above it that has one
FillBackward(col, i) ==
    LET J == {j \in i..Len(col) : col[j].def}
    IN IF J = {} THEN NaN ELSE col[CHOOSE j \in J : \A k \in J : j <= k]

FillForward(col, i) ==
    LET J == {j \in 1..i : col[j].def}
    IN IF J = {} THEN NaN ELSE col[MaxOf(J)]

FFill(frame) ==
    LET b == AsSeq([i \in 1..Len(frame) |-> frame[i].btc_price])
        e == AsSeq([i \in 1..Len(frame) |-> frame[i].eth_price])
    IN AsSeq([i \in 1..Len(frame) |->
          [ts |-> frame[i].ts, btc_price |-> FillForward(b, i),
           eth_price |-> FillForward(e, i)]])

DropNaKeepsAll(frame) ==
    AsSeq([i \in 1..Len(frame) |->
          [ts |-> frame[i].ts, btc_price |-> frame[i].btc_price.v,
           eth_price |-> frame[i].eth_price.v]])

\* DataFrame.dropna, the cells of the rows kept being numbers
DropNa(frame) ==
    LET Full(r) == r.btc_price.def /\ r.eth_price.def
        rows == SelectSeq(frame, Full)
    IN AsSeq([i \in 1..Len(rows) |->
          [ts |-> rows[i].ts, btc_price |-> rows[i].btc_price.v,
           eth_price |-> rows[i].eth_price.v]])

get_pair_data(df) ==
    IF df = <<>> THEN <<>>
    ELSE LET btc == Dedup(SymbolSeries(df, "btcusdt"))
             eth == Dedup(SymbolSeries(df, "ethusdt"))
         IN IF btc = <<>> \/ eth = <<>> THEN <<>>
            ELSE DropNa(FFill(Concat(btc, eth)))

(***************************************************************************)
(* pair_df.resample(timeframe).last().dropna().  pandas reads the alias    *)
(* "1s" as one second and the aliases "1m" and "5m" as one and five month  *)
(* ends (lower-case m is upper-cased to M, the month-end offset), so the   *)
(* buckets of "1m" are calendar months, labelled by the month's last day.  *)
(* Months are counted from January 1970; 1970 and 1971 have no leap day.   *)
(***************************************************************************)
Timeframes == {"1s", "1m", "5m"}

SecondsPerDay == 24 * 60 * 60

MonthLen(m) ==
    IF (m % 12) = 1 THEN 28
    ELSE IF (m % 12) \in {3, 5, 8, 10} THEN 30 ELSE 31

RECURSIVE MonthStartDay(_)
MonthStartDay(m) == IF m = 0 THEN 0 ELSE MonthStartDay(m - 1) + MonthLen(m - 1)

RECURSIVE MonthFrom(_, _)
MonthFrom(m, day) == IF day < MonthStartDay(m + 1) THEN m ELSE MonthFrom(m + 1, day)

MonthOf(t) == MonthFrom(0, t.sec \div SecondsPerDay)

MonthEnd(m) == [sec |-> (MonthStartDay(m + 1) - 1) * SecondsPerDay, ns |-> 0]

BucketLabelUnbucketed(tf, t, first) == t

\* the label of the bucket of timestamp t, first being the earliest
\* timestamp of the frame: a five-month bin ends with the month of first,
\* or a multiple of five months later
BucketLabel(tf, t, first) ==
    IF tf = "1s" THEN [sec |-> t.sec, ns |-> 0]
    ELSE IF tf = "1m" THEN MonthEnd(MonthOf(t))
    ELSE LET m0 == MonthOf(first)
             k == (MonthOf(t) - m0 + 4) \div 5
         IN MonthEnd(m0 + 5 * k)

\* the row of the frame with the latest timestamp among those labelled l
LastRowIn(frame, tf, first, l) ==
    LET I == {i \in 1..Len(frame) : BucketLabel(tf, frame[i].ts, first) = l}
    IN frame[CHOOSE i \in I : \A j \in I : ~TsLess(frame[i].ts, frame[j].ts)]

\* buckets without a row are NaN after last() and go with dropna()
Resample(frame, tf) ==
    IF frame = <<>> THEN <<>>
    ELSE LET first == MinTs(TsSet(frame))
             labels == SortTs({BucketLabel(tf, frame[i].ts, first) : i \in 1..Len(frame)})
         IN AsSeq([i \in 1..Len(labels) |->
               LET r == LastRowIn(frame, tf, first, labels[i])
               IN [ts |-> labels[i], btc_price |-> r.btc_price,
                   eth_price |-> r.eth_price]])

(***************************************************************************)
(* calculate_analytics.  The model keeps hedge_ratio, spread, z_score and  *)
(* rolling_corr; the ADF p-value and the regression summary are numbers    *)
(* and text it does not compute.                                           *)
(***************************************************************************)
Col(frame, c) == AsSeq([i \in 1..Len(frame) |-> frame[i][c]])

Prod(f, g) == [i \in DOMAIN f |-> f[i] * g[i]]

\* n * sum(f g) - sum(f) sum(g) over the indices I: n^2 times a covariance
Cross(f, g, I) ==
    Cardinality(I) * SumOver(Prod(f, g), I) - SumOver(f, I) * SumOver(g, I)

\* sm.OLS(y, sm.add_constant(x)).fit().params['btc_price'].  add_constant
\* adds no intercept column when x is a non-zero constant, so the fit is
\* then through the origin; the least-norm solution of an all-zero x is 0.
HedgeRatio(x, y) ==
    LET I == DOMAIN x
    IN IF Cross(x, x, I) # 0 THEN Frac(Cross(x, y, I), Cross(x, x, I))
       ELSE IF x[1] # 0 THEN Frac(SumOver(Prod(x, y), I), SumOver(Prod(x, x), I))
       ELSE Frac(0, 1)

\* a statistic s with the sign sgn and the square num/den; undefined is NaN
NoStat == [def |-> FALSE, sgn |-> 0, num |-> 0, den |-> 1]

Stat(sgn, sqn, sqd) ==
    LET f == Frac(sqn, sqd) IN [def |-> TRUE, sgn |-> sgn, num |-> f.num, den |-> f.den]

WindowAtExpanding(i, window) == 1..i

\* the indices of the rolling window that ends at i
WindowAt(i, window) == (i - window + 1)..i

\* (s[i] - mean) / std over the window ending at i, std with ddof = 1;
\* fewer than window points, or a zero std, give NaN
ZScoreAt(s, i, window) ==
    IF i < window THEN NoStat
    ELSE LET I == WindowAt(i, window)
             d == window * s[i] - SumOver(s, I)
             v == Cross(s, s, I)
         IN IF v = 0 THEN NoStat
            ELSE Stat(Sign(d), d * d * (window - 1), window * v)

\* Pearson correlation of x and y over the window ending at i
CorrAt(x, y, i, window) ==
    IF i < window THEN NoStat
    ELSE LET I == WindowAt(i, window)
             c == Cross(x, y, I)
             vx == Cross(x, x, I)
             vy == Cross(y, y, I)
         IN IF vx = 0 \/ vy = 0 THEN NoStat
            ELSE Stat(Sign(c), c * c, vx * vy)

\* a sequence of integers divided by the greatest common divisor of them
Reduced(f) ==
    LET g == GcdAll({f[i] : i \in DOMAIN f})
    IN IF g = 0 THEN f ELSE [i \in DOMAIN f |-> f[i] \div g]

calculate_analytics(frame, window) ==
    LET n == Len(frame)
        g == GcdAll({frame[i].btc_price : i \in 1..n} \cup {frame[i].eth_price : i \in 1..n})
        x == AsSeq([i \in 1..n |-> IF g = 0 THEN 0 ELSE frame[i].btc_price \div g])
        y == AsSeq([i \in 1..n |-> IF g = 0 THEN 0 ELSE frame[i].eth_price \div g])
        h == HedgeRatio(x, y)
        \* spread[i] * h.den, in units of g / Scale
        sp == AsSeq([i \in 1..n |-> y[i] * h.den - h.num * x[i]])
        rs == Reduced(sp)
    IN [hedge_ratio |-> h,
        spread |-> AsSeq([i \in 1..n |-> [ts |-> frame[i].ts, v |-> Frac(sp[i] * g, h.den * Scale)]]),
        z_score |-> AsSeq([i \in 1..n |-> [ts |-> frame[i].ts, v |-> ZScoreAt(rs, i, window)]]),
        rolling_corr |-> AsSeq([i \in 1..n |-> [ts |-> frame[i].ts, v |-> CorrAt(x, y, i, window)]])]

\* line 93, adfuller(spread.dropna()): on a spread whose values are all
\* equal statsmodels raises ValueError (x is constant) in the releases that
\* check for it and returns in the others; the p-value is not modelled
AdfullerOutcomes(spread) ==
    IF \A i, j \in 1..Len(spread) : spread[i].v = spread[j].v
    THEN {"raises", "returns"}
    ELSE {"returns"}

(***************************************************************************)
(* The dashboard script of app.py, run top to bottom on every refresh,     *)
(* with the sidebar's timeframe, rolling_window and alert_z_score (the     *)
(* threshold in tenths).                                                   *)
(***************************************************************************)
Windows == MinWindow..MaxWindow

\* alert_z_score in tenths (0.5 to 5.0 in steps of 0.1 in app.py)
Thresholds == {20}

\* load_data through st.cache_data(ttl=10): the call has no argument, so
\* the cache has one entry, returned until it expires
load_data ==
    IF loadCache # <<>> THEN Returns(loadCache[1]) ELSE LoadDataBody(db, ticks)

\* the key st.cache_resource gives a call of calculate_analytics: Streamlit
\* leaves a parameter whose name starts with an underscore
\* (_pair_df_resampled) out of the key
CacheKey(frame, window) == <<window>>

CacheHits(frame, window) ==
    {e \in analyticsCache : e.key = CacheKey(frame, window)}

\* calculate_analytics through st.cache_resource (no ttl, no max_entries)
CalculateAnalyticsCached(frame, window) ==
    IF CacheHits(frame, window) # {}
    THEN (CHOOSE e \in CacheHits(frame, window) : TRUE).value
    ELSE calculate_analytics(frame, window)

\* line 147, negated: the series is long enough for the window
HasEnoughDataAlways(frame, window) == TRUE

HasEnoughData(frame, window) == ~(frame = <<>> \/ Len(frame) < window)

\* resampled_df[c] = analytics[c]: the assigned series is aligned on the
\* frame's index, a label it lacks giving NaN
AssignColumn(frame, series) ==
    AsSeq([i \in 1..Len(frame) |->
        LET J == {j \in 1..Len(series) : series[j].ts = frame[i].ts}
        IN IF J = {} THEN NoStat ELSE series[CHOOSE j \in J : TRUE].v])

AlertBreachNoAbs(z, thr) == z.def /\ z.sgn > 0 /\ 100 * z.num > thr * thr * z.den

\* abs(current_z) > alert_z_score; a comparison with NaN is False
AlertBreach(z, thr) == z.def /\ 100 * z.num > thr * thr * z.den

NoAnalytics ==
    [hedge_ratio |-> Frac(0, 1), spread |-> <<>>, z_score |-> <<>>,
     rolling_corr |-> <<>>]

\* a run that ends in st.warning and st.stop, or in an exception
Stopped(status, tf, window, thr, raw, pair, resampled) ==
    [status |-> status, tf |-> tf, window |-> window, thr |-> thr,
     raw |-> raw, pair |-> pair, resampled |-> resampled,
     analytics |-> NoAnalytics, z_score |-> <<>>, rolling_corr |-> <<>>,
     current_z |-> NoStat, alert |-> FALSE]

Refresh(tf, window, thr) ==
    LET loaded == load_data
        raw_df == loaded.df
        pair_df == get_pair_data(raw_df)
        resampled_df == Resample(pair_df, tf)
        analytics == CalculateAnalyticsCached(resampled_df, window)
        z_col == AssignColumn(resampled_df, analytics.z_score)
        current_z == z_col[Len(z_col)]
    IN /\ loadCache' = IF loaded.raised THEN loadCache ELSE <<raw_df>>
       /\ IF loaded.raised
          THEN /\ view' = Stopped("exception", tf, window, thr, <<>>, <<>>, <<>>)
               /\ UNCHANGED analyticsCache
          ELSE IF raw_df = <<>>
          THEN /\ view' = Stopped("no_data", tf, window, thr, raw_df, <<>>, <<>>)
               /\ UNCHANGED analyticsCache
          ELSE IF pair_df = <<>>
          THEN /\ view' = Stopped("waiting_pair", tf, window, thr, raw_df, pair_df, <<>>)
               /\ UNCHANGED analyticsCache
          ELSE IF ~HasEnoughData(resampled_df, window)
          THEN /\ view' = Stopped("insufficient", tf, window, thr, raw_df, pair_df,
                                  resampled_df)
               /\ UNCHANGED analyticsCache
          ELSE \E adf \in (IF CacheHits(resampled_df, window) # {} THEN {"returns"}
                            ELSE AdfullerOutcomes(analytics.spread)) :
               IF adf = "raises"
               THEN /\ view' = Stopped("exception", tf, window, thr, raw_df, pair_df,
                                       resampled_df)
                    /\ UNCHANGED analyticsCache
               ELSE
               /\ analyticsCache' =
                    IF CacheHits(resampled_df, window) # {} THEN analyticsCache
                    ELSE analyticsCache \cup
                           {[key |-> CacheKey(resampled_df, window), value |-> analytics]}
               /\ view' =
                    [status |-> "ok", tf |-> tf, window |-> window, thr |-> thr,
                     raw |-> raw_df, pair |-> pair_df, resampled |-> resampled_df,
                     analytics |-> analytics, z_score |-> z_col,
                     rolling_corr |-> AssignColumn(resampled_df, analytics.rolling_corr),
                     current_z |-> current_z, alert |-> AlertBreach(current_z, thr)]
       /\ UNCHANGED ingest

\* ten seconds pass: the entry of load_data's cache expires
TtlExpire ==
    /\ loadCache # <<>>
    /\ loadCache' = <<>>
    /\ UNCHANGED <<ingest, analyticsCache, view>>

NoView == Stopped("none", "1s", MinWindow, 20, <<>>, <<>>, <<>>)

Init ==
    /\ db = "nofile"
    /\ ticks = <<>>
    /\ pending = <<>>
    /\ pc = [s \in Symbols |-> "connect"]
    /\ closures = [s \in Symbols |-> 0]
    /\ delivered = [s \in Symbols |-> 0]
    /\ last = Event("btcusdt", "start")
    /\ loadCache = <<>>
    /\ analyticsCache = {}
    /\ view = NoView

Next ==
    \/ DbConnect
    \/ DbCreateTable
    \/ \E s \in Symbols : ConnectOk(s)
    \/ \E s \in Symbols : ConnectFails(s)
    \/ \E s \in Symbols : SleepDone(s)
    \/ \E s \in Symbols : RecvClosed(s)
    \/ \E s \in Symbols, m \in IngestMsgs :
           \E out \in OutcomesFor(s, m) : Room(s, m, MaxTicks) /\ RecvMsg(s, m, out)
    \/ Cancel

Spec == Init /\ [][Next]_vars

(***************************************************************************)
(* The dashboard beside connectors that meet no failure: every message is  *)
(* a trade event and every append commits.  The feed of a symbol is a      *)
(* fixed sequence of trades: the trades come in pairs a second apart, one  *)
(* pair every 31 days, at prices that are not collinear.                   *)
(***************************************************************************)

FeedPrice(s, k) == IF s = "btcusdt" THEN k ELSE k * k

FeedMsg(s, k) ==
    Msg("trade", Num(Ms(((k - 1) \div 2) * 31 * SecondsPerDay + ((k - 1) % 2), 0)),
        Num(FeedPrice(s, k)), Num(0))

\* the rows of symbol s, in rowid order
RowsOf(rows, s) == LET Sel(r) == r.symbol = s IN SelectSeq(rows, Sel)

NextApp ==
    \/ DbConnect
    \/ DbCreateTable
    \/ \E s \in Symbols : ConnectOk(s)
    \/ \E s \in Symbols :
          LET m == FeedMsg(s, delivered[s] + 1)
          IN Room(s, m, MaxFeed) /\ RecvMsg(s, m, "ok")
    \/ \E tf \in Timeframes, window \in Windows, thr \in Thresholds :
           Refresh(tf, window, thr)
    \/ TtlExpire

SpecApp == Init /\ [][NextApp]_vars

(***************************************************************************)
(* The aligner on its own: the dashboard run on every snapshot of at most  *)
(* MaxRows rows, in any insertion order, that the connectors can have      *)
(* written.                                                                *)
(***************************************************************************)
AlignTimes == {Ms(0, 0), Ms(0, 500), Ms(31 * SecondsPerDay, 0)}
AlignPrices == {1, 2}

AlignTicks ==
    {normalize_trade_data(s, m) : s \in Symbols,
                                  m \in TradeMsgs(AlignTimes, AlignPrices, IngestSizes)}

RECURSIVE SeqsUpTo(_, _)
SeqsUpTo(S, n) ==
    IF n = 0 THEN {<<>>}
    ELSE LET shorter == SeqsUpTo(S, n - 1)
         IN shorter \cup {Append(q, x) : q \in {r \in shorter : Len(r) = n - 1}, x \in S}

InitAlign ==
    /\ db = "ready"
    /\ ticks \in SeqsUpTo(AlignTicks, MaxRows)
    /\ pending = <<>>
    /\ pc = [s \in Symbols |-> "recv"]
    /\ closures = [s \in Symbols |-> 0]
    /\ delivered = [s \in Symbols |-> Len(RowsOf(ticks, s))]
    /\ last = Event("btcusdt", "connected")
    /\ loadCache = <<>>
    /\ analyticsCache = {}
    /\ view = NoView

NextAlign ==
    \E tf \in Timeframes, thr \in Thresholds : Refresh(tf, MinWindow, thr)

SpecAlign == InitAlign /\ [][NextAlign]_vars

(***************************************************************************)
(* Claims about the ingestion connectors, checked under Spec.              *)
(***************************************************************************)

\* the connector named by the last log line
Connector == last.sym

C2_ReconnectsAfterEveryClosure ==
    [][\A s \in Symbols :
          /\ (RecvClosed(s) \/ ConnectFails(s)) => pc'[s] \in {"connect", "sleep"}
          /\ (pc[s] # "cancelled" /\ pc'[s] = "cancelled") => Cancel
          /\ (pc[s] \in {"connect", "sleep"} /\ pc'[s] # pc[s])
                => pc'[s] \in {"connect", "sleep", "recv", "cancelled"}]_vars

\* a connector that saw MaxClosures closures has appended a tick on the
\* connection it opened after the last of them
C2_Witness ==
    /\ closures[Connector] = MaxClosures
    /\ last.ev = "appended"
    /\ pc[Connector] = "recv"
    /\ ticks # <<>>

\* C3 as stated: a failed append is fatal to its connector: after the
\* database raised on the insert or on the commit the connector has stopped.
C3_AppendFailureStopsConnector ==
    last.ev = "db_error" => pc[Connector] = "cancelled"

\* C4: a message that is malformed, is not a trade event, or lacks a usable
\* time, price or size appends no tick and leaves the connection of its
\* connector open.
C4_BadMessageDropped ==
    [][\A s \in Symbols, m \in BadMsgs :
          RecvMsg(s, m, "ok")
            => /\ ticks' = ticks
               /\ pending' = pending
               /\ pc'[s] = "recv"
               /\ last'.ev \in {"error", "ignored", "dropped"}]_vars

\* a trade event with an unusable field was dropped on a connection that
\* has stored ticks, and the connection is still open
C4_Witness ==
    /\ last.ev = "dropped"
    /\ pc[Connector] = "recv"
    /\ ticks # <<>>

(***************************************************************************)
(* Claims about the reader and the analytics, checked under SpecApp.       *)
(***************************************************************************)

\* the record a read owes for the k-th trade of the feed of s: the time of
\* the trade, the symbol of the connector and the price (the query selects
\* no size)
ExpectedRow(s, k) ==
    LET data == FeedMsg(s, k)
    IN [ts |-> [sec |-> data.T.v.sec, ns |-> data.T.v.ms * 1000000],
        symbol |-> s, price |-> data.p.v]

ExpectedRows(s) == AsSeq([k \in 1..delivered[s] |-> ExpectedRow(s, k)])

IsPrefix(a, b) == Len(a) <= Len(b) /\ a = SubSeq(b, 1, Len(a))

\* a run of the script that shows something new
Rerun == view' # view

\* C5 as stated: when no append has failed, every read returns for each
\* connector exactly the ticks it appended, in append order, none lost and
\* none twice.
C5_ReadReturnsAllAppended ==
    [][Rerun => \A s \in Symbols : RowsOf(view'.raw, s) = ExpectedRows(s)]_vars

\* C5 amended: when no append has failed, a read that runs the query
\* returns for each connector exactly the ticks it appended (time, symbol
\* and price), in append order, none lost and none twice; a read answered
\* from the ten-second cache returns an earlier snapshot, which holds a
\* prefix of them in the same order.
C5_ReadReturnsAppendedPrefix ==
    [][Rerun => \A s \in Symbols :
          /\ IsPrefix(RowsOf(view'.raw, s), ExpectedRows(s))
          /\ loadCache = <<>> => RowsOf(view'.raw, s) = ExpectedRows(s)]_vars

\* a read has returned both ticks of a connector that appended two
C5_Witness ==
    \E s \in Symbols :
        /\ delivered[s] >= 2
        /\ RowsOf(view.raw, s) = ExpectedRows(s)
        /\ Len(view.raw) > delivered[s]

\* C6 as stated: the analytics a run shows are those of the series the run
\* resampled, not those computed for a series of an earlier run.
C6_AnalyticsOfCurrentSeries ==
    view.status = "ok"
        => view.analytics = calculate_analytics(view.resampled, view.window)

\* C7: a read made before the file exists, before the table is created or
\* while the table is empty does not fail: it returns the empty snapshot
\* and the run reports that it waits for data, computing nothing.
C7_ReadBeforeInitialisation ==
    [][(Rerun /\ (db # "ready" \/ ticks = <<>>))
          => /\ view'.status = "no_data"
             /\ view'.raw = <<>>
             /\ view'.analytics = NoAnalytics
             /\ analyticsCache' = analyticsCache]_vars

\* the run read a store that had no table yet and waits for data
C7_Witness ==
    /\ db # "ready"
    /\ view.status = "no_data"
    /\ view.raw = <<>>

\* C8: a series shorter than the window is rejected with the insufficient
\* data warning and yields neither z-score nor correlation nor alert; a
\* series at least as long as the window is not rejected.
C8_ShortSeriesRejected ==
    /\ (view.resampled # <<>> /\ Len(view.resampled) < view.window)
          => /\ view.status = "insufficient"
             /\ view.analytics = NoAnalytics
             /\ view.z_score = <<>>
             /\ view.rolling_corr = <<>>
             /\ view.current_z = NoStat
             /\ ~view.alert
    /\ view.status = "insufficient" => Len(view.resampled) < view.window

\* a series one row short of the window was rejected
C8_Witness ==
    /\ view.status = "insufficient"
    /\ view.resampled # <<>>
    /\ Len(view.resampled) = view.window - 1

(***************************************************************************)
(* Claims about the alignment of the two symbols, checked under SpecAlign. *)
(***************************************************************************)

\* the ticks of symbol s in the snapshot the run read, and where the
\* snapshot holds a tick of s at timestamp t
Observed(s) == SymbolSeries(view.raw, s)

At(s, t) == {i \in 1..Len(Observed(s)) : Observed(s)[i].ts = t}

\* price is the arithmetic mean of the prices s has at t
IsMeanAt(price, s, t) ==
    LET p == [i \in 1..Len(Observed(s)) |-> Observed(s)[i].price]
    IN Cardinality(At(s, t)) * price = SumOver(p, At(s, t))

PriceOf(row, s) == IF s = "btcusdt" THEN row.btc_price ELSE row.eth_price

PairRows == {view.pair[i] : i \in 1..Len(view.pair)}

\* C9: for each symbol and each timestamp at which the snapshot holds
\* k >= 1 ticks of it, the deduplicated series holds exactly one point at
\* that timestamp, priced at the arithmetic mean of the k prices, and the
\* pair series carries that mean at every timestamp of its own the symbol
\* has ticks at.
C9_DuplicatesAveraged ==
    view.status # "none" =>
        \A s \in Symbols :
            LET d == Dedup(Observed(s))
            IN /\ TsSet(d) = TsSet(Observed(s))
               /\ \A t \in TsSet(Observed(s)) :
                     LET J == {j \in 1..Len(d) : d[j].ts = t}
                     IN /\ Cardinality(J) = 1
                        /\ \A j \in J : IsMeanAt(d[j].price, s, t)
               /\ \A r \in PairRows :
                     At(s, r.ts) # {} => IsMeanAt(PriceOf(r, s), s, r.ts)

\* a symbol has two ticks of different prices at a timestamp of the pair
\* series
C9_Witness ==
    \E s \in Symbols, r \in PairRows :
        \E i, j \in At(s, r.ts) : Observed(s)[i].price # Observed(s)[j].price

\* the timestamps before t at which s has ticks
Earlier(s, t) == {u \in TsSet(Observed(s)) : TsLess(u, t)}

\* C10: at every timestamp of the pair series at which a symbol has no
\* tick of its own, the symbol's value is its observation at the greatest
\* timestamp before it at which it has one.
C10_ForwardFill ==
    \A s \in Symbols, r \in PairRows :
        At(s, r.ts) = {} =>
            /\ Earlier(s, r.ts) # {}
            /\ \A g \in Earlier(s, r.ts) :
                  (\A u \in Earlier(s, r.ts) : ~TsLess(g, u))
                      => IsMeanAt(PriceOf(r, s), s, g)

\* the pair series has a timestamp at which one symbol has no tick, and
\* the symbol has ticks before and after it
C10_Witness ==
    \E s \in Symbols, r \in PairRows :
        /\ At(s, r.ts) = {}
        /\ \E u \in TsSet(Observed(s)) : TsLess(r.ts, u)

\* the earliest timestamp at which the snapshot holds a tick of s
FirstTs(s) == MinTs(TsSet(Observed(s)))

\* C11: every row of the pair series carries a price of each symbol, no
\* row is earlier than the later of the two symbols' first observations,
\* and the pair series is empty when a symbol has no tick.
C11_NoLeadingGap ==
    view.status # "none" =>
        /\ \A r \in PairRows, s \in Symbols :
              /\ PriceOf(r, s) > 0
              /\ Observed(s) # <<>>
              /\ ~TsLess(r.ts, FirstTs(s))
        /\ (\E s \in Symbols : Observed(s) = <<>>) => view.pair = <<>>

\* one symbol reported first, the other strictly later, and the pair series
\* starts at the later first observation
C11_Witness ==
    /\ view.pair # <<>>
    /\ \E s \in Symbols :
          /\ TsLess(FirstTs(CHOOSE o \in Symbols : o # s), FirstTs(s))
          /\ view.pair[1].ts = FirstTs(s)

(***************************************************************************)
(* The alert evaluation of lines 163-172 on its own: the script has come   *)
(* to line 163 with some current z-score, under the threshold of the       *)
(* sidebar.  A refresh brings a new z-score, the user moves the threshold. *)
(***************************************************************************)

\* alert_z_score in tenths: min_value = 0.5, max_value = 5.0, step = 0.1
MinThreshold == 5
MaxThreshold == 50

AlertThresholds == MinThreshold..MaxThreshold

\* z = sgn * n / 10
ZTenths(sgn, n) == Stat(IF n = 0 THEN 0 ELSE sgn, n * n, 100)

AlertZs == {NoStat} \cup {ZTenths(sgn, n) : sgn \in {-1, 1}, n \in 0..MaxZTenths}

\* the run that reached line 163 with current_z = z under the threshold thr
Evaluated(z, thr) ==
    [Stopped("ok", "1s", MinWindow, thr, <<>>, <<>>, <<>>)
        EXCEPT !.current_z = z, !.alert = AlertBreach(z, thr)]

InitAlert ==
    /\ db = "ready"
    /\ ticks = <<>>
    /\ pending = <<>>
    /\ pc = [s \in Symbols |-> "recv"]
    /\ closures = [s \in Symbols |-> 0]
    /\ delivered = [s \in Symbols |-> 0]
    /\ last = Event("btcusdt", "connected")
    /\ loadCache = <<>>
    /\ analyticsCache = {}
    /\ \E z \in AlertZs, thr \in AlertThresholds : view = Evaluated(z, thr)

\* a refresh: the script runs again and has another current z-score
EvaluateZ(z) ==
    /\ view' = Evaluated(z, view.thr)
    /\ UNCHANGED <<ingest, loadCache, analyticsCache>>

\* the user changes the threshold: the script runs again on the same data
EvaluateThreshold(thr) ==
    /\ view' = Evaluated(view.current_z, thr)
    /\ UNCHANGED <<ingest, loadCache, analyticsCache>>

NextAlert ==
    \/ \E z \in AlertZs : EvaluateZ(z)
    \/ \E thr \in AlertThresholds : EvaluateThreshold(thr)

SpecAlert == InitAlert /\ [][NextAlert]_vars

\* C12: whatever was evaluated before, a breach is reported exactly when
\* the current z-score is a number and |z| > threshold, strictly and for
\* either sign; evaluate(2.5, 2.0) and evaluate(-2.1, 2.0) are breaches
\* and evaluate(1.9, 2.0) is none.
C12_AlertLaw ==
    /\ \A sgn \in {-1, 1}, n \in 0..MaxZTenths :
          view.current_z = ZTenths(sgn, n) => (view.alert <=> n > view.thr)
    /\ view.current_z = NoStat => ~view.alert
    /\ (view.thr = 20 /\ view.current_z = ZTenths(1, 25)) => view.alert
    /\ (view.thr = 20 /\ view.current_z = ZTenths(1, 19)) => ~view.alert
    /\ (view.thr = 20 /\ view.current_z = ZTenths(-1, 21)) => view.alert

\* a negative z-score beyond the threshold is reported as a breach
C12_Witness ==
    /\ view.thr = 20
    /\ view.current_z = ZTenths(-1, 21)
    /\ view.alert

(***************************************************************************)
(* calculate_analytics on its own: the script has a resampled series of at *)
(* least rolling_window rows (line 147) and calls calculate_analytics on   *)
(* it (line 152), here without the cache.                                  *)
(***************************************************************************)
SeriesBtc == {1, 2}
SeriesEth == {1, 2, 3}

SeriesRows(n) ==
    {[ts |-> [sec |-> n - 1, ns |-> 0], btc_price |-> Scale * b, eth_price |-> Scale * e] :
        b \in SeriesBtc, e \in SeriesEth}

\* the series of n rows, one row a second
RECURSIVE SeriesOfLen(_)
SeriesOfLen(n) ==
    IF n = 0 THEN {<<>>}
    ELSE {Append(f, r) : f \in SeriesOfLen(n - 1), r \in SeriesRows(n)}

InitSeries ==
    /\ db = "ready"
    /\ ticks = <<>>
    /\ pending = <<>>
    /\ pc = [s \in Symbols |-> "recv"]
    /\ closures = [s \in Symbols |-> 0]
    /\ delivered = [s \in Symbols |-> 0]
    /\ last = Event("btcusdt", "connected")
    /\ loadCache = <<>>
    /\ analyticsCache = {}
    /\ \E n \in MinWindow..MaxSeries, window \in Windows :
          /\ window <= n
          /\ \E frame \in SeriesOfLen(n) :
                view = Stopped("series", "1s", window, 20, <<>>, <<>>, frame)

\* lines 152-163: the analytics of the series and its current z-score
Compute ==
    /\ view.status = "series"
    /\ LET analytics == calculate_analytics(view.resampled, view.window)
           z_col == AssignColumn(view.resampled, analytics.z_score)
       IN \E adf \in AdfullerOutcomes(analytics.spread) :
            IF adf = "raises"
            THEN view' = [view EXCEPT !.status = "exception"]
            ELSE view' = [view EXCEPT !.status = "computed", !.analytics = analytics,
                               !.z_score = z_col,
                               !.rolling_corr =
                                   AssignColumn(view.resampled, analytics.rolling_corr),
                               !.current_z = z_col[Len(z_col)],
                               !.alert = AlertBreach(z_col[Len(z_col)], view.thr)]
    /\ UNCHANGED <<ingest, loadCache, analyticsCache>>

NextSeries == Compute

SpecSeries == InitSeries /\ [][NextSeries]_vars

Lcm(a, b) == (a * b) \div Gcd(a, b)

RECURSIVE LcmAll(_)
LcmAll(S) == IF S = {} THEN 1 ELSE LET x == CHOOSE y \in S : TRUE
                                    IN Lcm(x, LcmAll(S \ {x}))

\* the spread the analytics returned, as integers in a common unit
SpreadInts ==
    LET sp == view.analytics.spread
        L == LcmAll({sp[i].v.den : i \in 1..Len(sp)})
    IN Reduced([i \in 1..Len(sp) |-> sp[i].v.num * (L \div sp[i].v.den)])

\* w times the sum of squared deviations of a[i-w+1..i] from their mean
WindowSpread(a, i, w) ==
    LET J == (i - w + 1)..i
    IN w * SumOver(Prod(a, a), J) - SumOver(a, J) * SumOver(a, J)

\* z is (a[i] - mean) / std of a[i-w+1..i], std with w - 1 in the divisor
IsZScoreOf(z, a, i, w) ==
    LET d == w * a[i] - SumOver(a, (i - w + 1)..i)
    IN /\ z.def
       /\ z.sgn = Sign(d)
       /\ z.num * (w * WindowSpread(a, i, w)) = z.den * (d * d * (w - 1))

C14_UndefinedNeverEvaluated ==
    view.status = "computed" => view.current_z.def

(***************************************************************************)
(* Claims about the shared store, checked under SpecApp.                   *)
(***************************************************************************)

\* the complete row the k-th trade of the feed of s is stored as
ExpectedTick(s, k) ==
    LET data == FeedMsg(s, k)
    IN [ts |-> [sec |-> data.T.v.sec, us |-> data.T.v.ms * 1000],
        symbol |-> s, price |-> data.p.v, size |-> data.q.v]

\* what a reader sees of a stored row
Visible(row) ==
    [ts |-> [sec |-> row.ts.sec, ns |-> row.ts.us * 1000],
     symbol |-> row.symbol, price |-> row.price]

\* C15: under every interleaving of the two connectors, a step that writes
\* to the store is the whole append of one connector: it adds, after the
\* rows already stored and leaving them as they are, the one complete row
\* of the tick that connector received, and leaves nothing uncommitted;
\* every record of a reader's snapshot is a whole stored row.
C15_AppendsSerialized ==
    [][/\ ticks' # ticks =>
            /\ pending = <<>> /\ pending' = <<>>
            /\ \E s \in Symbols :
                  /\ delivered' = [delivered EXCEPT ![s] = @ + 1]
                  /\ ticks' = Append(ticks, ExpectedTick(s, delivered'[s]))
       /\ \A i \in 1..Len(view'.raw) :
            \E j \in 1..Len(ticks') : view'.raw[i] = Visible(ticks'[j])]_vars

\* the two connectors have appended in turn, and a reader has read the rows
C15_Witness ==
    /\ Len(ticks) >= 3
    /\ ticks[1].symbol # ticks[2].symbol
    /\ ticks[2].symbol # ticks[3].symbol
    /\ Len(view.raw) = Len(ticks)

\* the timestamps of a series, each later than the one before it
Increasing(series) ==
    \A i \in 1..(Len(series) - 1) : TsLess(series[i].ts, series[i + 1].ts)

\* C16 as stated: for every snapshot, whatever the order its ticks were
\* inserted in and with or without duplicate timestamps, each deduplicated
\* symbol series and the pair series have strictly increasing timestamps.
C16_StrictlyIncreasing ==
    view.status # "none" =>
        /\ \A s \in Symbols : Increasing(Dedup(Observed(s)))
        /\ Increasing(view.pair)

(***************************************************************************)
(* Line 145 on its own: the script has a pair series and a timeframe and   *)
(* resamples it.                                                           *)
(***************************************************************************)
ResampleTimes ==
    {Ms(0, 0), Ms(0, 500), Ms(2, 0), Ms(61, 0), Ms(400, 0), Ms(31 * SecondsPerDay, 0)}

\* the prices a row of the pair series may carry
ResamplePrices == {<<1, 2>>, <<2, 1>>}

\* the pair series (sorted, one row per timestamp) on the timestamps T
PairSeriesOn(T) ==
    LET idx == SortTs({to_datetime(IsoFormat(t)) : t \in T})
    IN {AsSeq([i \in 1..Len(idx) |->
            [ts |-> idx[i], btc_price |-> Scale * p[i][1], eth_price |-> Scale * p[i][2]]]) :
          p \in [1..Len(idx) -> ResamplePrices]}

InitResample ==
    /\ db = "ready"
    /\ ticks = <<>>
    /\ pending = <<>>
    /\ pc = [s \in Symbols |-> "recv"]
    /\ closures = [s \in Symbols |-> 0]
    /\ delivered = [s \in Symbols |-> 0]
    /\ last = Event("btcusdt", "connected")
    /\ loadCache = <<>>
    /\ analyticsCache = {}
    /\ \E T \in (SUBSET ResampleTimes) \ {{}}, tf \in Timeframes :
          \E frame \in PairSeriesOn(T) :
              view = Stopped("pair", tf, MinWindow, 20, <<>>, frame, <<>>)

\* line 145: resampled_df = pair_df.resample(timeframe).last().dropna()
ResampleStep ==
    /\ view.status = "pair"
    /\ view' = [view EXCEPT !.status = "resampled",
                            !.resampled = Resample(view.pair, view.tf)]
    /\ UNCHANGED <<ingest, loadCache, analyticsCache>>

NextResample == ResampleStep

SpecResample == InitResample /\ [][NextResample]_vars

\* the width in seconds of the buckets the timeframe names
IntervalSeconds(tf) == CASE tf = "1s" -> 1 [] tf = "1m" -> 60 [] tf = "5m" -> 300

\* the fixed-width bucket of a timestamp, and the pair rows inside bucket b
FixedBucket(tf, t) == t.sec \div IntervalSeconds(tf)

InBucket(tf, b) == {r \in PairRows : FixedBucket(tf, r.ts) = b}

ResampledRows == {view.resampled[i] : i \in 1..Len(view.resampled)}

\* C17 as stated: the resampled series has exactly one entry for every
\* fixed-width bucket of the timeframe that holds a pair-series entry,
\* carrying each symbol's value at the latest pair-series timestamp inside
\* the bucket, and no entry for a bucket that holds none.
C17_LastPerFixedBucket ==
    view.status = "resampled" =>
        LET B == {FixedBucket(view.tf, r.ts) : r \in PairRows}
        IN /\ Len(view.resampled) = Cardinality(B)
           /\ \A row \in ResampledRows : FixedBucket(view.tf, row.ts) \in B
           /\ \A b \in B :
                \E row \in ResampledRows, r \in InBucket(view.tf, b) :
                    /\ FixedBucket(view.tf, row.ts) = b
                    /\ \A o \in InBucket(view.tf, b) : ~TsLess(r.ts, o.ts)
                    /\ row.btc_price = r.btc_price
                    /\ row.eth_price = r.eth_price

\* C18 as stated: the resampled series has strictly increasing timestamps
\* and any two consecutive entries are exactly one interval apart, also
\* when the pair series has no entry during whole intervals.
C18_EvenlySpaced ==
    view.status = "resampled" =>
        \A i \in 1..(Len(view.resampled) - 1) :
            /\ view.resampled[i + 1].ts.sec
                 = view.resampled[i].ts.sec + IntervalSeconds(view.tf)
            /\ view.resampled[i + 1].ts.ns = view.resampled[i].ts.ns

\* C18 amended: the resampled series has strictly increasing timestamps,
\* each the label of a bucket in which the pair series has an entry, at most
\* one entry per pair-series entry; a bucket without an entry is left out,
\* not filled, so that consecutive entries may lie more than one interval
\* apart: under the timeframe 1s the entries are exactly the whole seconds
\* in which the pair series has an entry.
C18_IncreasingWithGaps ==
    view.status = "resampled" =>
        /\ Increasing(view.resampled)
        /\ Len(view.resampled) <= Len(view.pair)
        /\ view.resampled # <<>>
        /\ \A row \in ResampledRows : row.ts.ns = 0
        /\ view.tf = "1s" =>
              {row.ts.sec : row \in ResampledRows} = {r.ts.sec : r \in PairRows}

\* under 1s two pair entries share a second and the next entry is more
\* than a second later: the resampled series has a gap
C18_Witness ==
    /\ view.status = "resampled"
    /\ view.tf = "1s"
    /\ Len(view.resampled) < Len(view.pair)
    /\ \E i \in 1..(Len(view.resampled) - 1) :
          view.resampled[i + 1].ts.sec > view.resampled[i].ts.sec + 1

(***************************************************************************)
(* The store under arbitrary trade messages.  The connectors receive trade *)
(* events whose price and quantity are any number the feed can put on the  *)
(* wire, zero and negative ones included, and the two database calls of an *)
(* append may fail.                                                        *)
(***************************************************************************)
StorePrices == {-1, 0, 1}
StoreSizes == {-1, 0}

StoreMsgs == TradeMsgs(IngestTimes, StorePrices, StoreSizes)

NextStore ==
    \/ DbConnect
    \/ DbCreateTable
    \/ \E s \in Symbols : ConnectOk(s)
    \/ \E s \in Symbols, m \in StoreMsgs :
           \E out \in OutcomesFor(s, m) : Room(s, m, MaxTicks) /\ RecvMsg(s, m, out)

SpecStore == Init /\ [][NextStore]_vars

\* a tick of the data model: positive price, non-negative size
ValidTick(row) == row.price > 0 /\ row.size >= 0

\* the committed rows before a step are the first rows after it, unchanged
LogOnlyGrows ==
    /\ Len(ticks) <= Len(ticks')
    /\ \A i \in 1..Len(ticks) : ticks'[i] = ticks[i]

\* C19 as stated: whatever trade messages arrive, every tick in the store
\* has a positive price and a non-negative size, and a stored tick is never
\* changed or deleted: the log only grows.
C19_ValidTicksOnlyGrow ==
    [][(\A i \in 1..Len(ticks') : ValidTick(ticks'[i])) /\ LogOnlyGrows]_vars

(***************************************************************************)
(* Shutdown, checked under Spec.                                           *)
(***************************************************************************)
AllCancelled == \A s \in Symbols : pc[s] = "cancelled"

\* C20: the shutdown signal can be delivered while any connector still runs,
\* whatever it is doing, and ends every connector; the signal itself adds
\* nothing to the store, the row of an append it cuts short stays out of the
\* store, and once the connectors are cancelled the store, the uncommitted
\* rows and the connectors never change again.  The store only ever grows by
\* whole rows: an append is committed with all its fields or not at all.
C20_CancelStopsEveryConnector ==
    /\ []((\E s \in Symbols : pc[s] # "cancelled") => ENABLED Cancel)
    /\ [][/\ Cancel => (AllCancelled' /\ ticks' = ticks)
          /\ AllCancelled => UNCHANGED <<ticks, pending, pc>>
          /\ ticks' # ticks =>
                \E s \in Symbols, m \in IngestMsgs :
                    /\ ReachesDb(s, m)
                    /\ ticks' = ticks \o InsertRow(pending, normalize_trade_data(s, m))]_vars

\* the signal cut an append short: every connector is cancelled, an earlier
\* row is committed and the row of the interrupted append is not
C20_Witness ==
    /\ AllCancelled
    /\ last.ev = "cancel_in_append"
    /\ ticks # <<>>
    /\ pending # <<>>

====
